---- MODULE Spec2Model ----
(***************************************************************************)
(* Model of turno-penitenciario (src/main.py): the date calculator, the    *)
(* target-instant resolver, the precision waiter, the page navigator, the  *)
(* availability poller, the form filler, the submission retrier and the   *)
(* notifier, driven by run().                                              *)
(*                                                                         *)
(* Time.  The unit is 5 ms (half the shortest sleep of the program, so     *)
(* that an instant can fall between two polls of the fine wait): Seg(n) is *)
(* n seconds.  Wall-clock instants (datetime.now(TIMEZONE)) are integers,  *)
(* dia * DIA + time of day, where dia = 1 is 2026-02-01 in                 *)
(* America/Argentina/Buenos_Aires (no DST, so local days are 24 h).  The   *)
(* budget clock time.time() is only ever used in differences against the   *)
(* loop's own `inicio`, so `reloj` holds time.time() - inicio.             *)
(*                                                                         *)
(* Strings are sequences of one-character strings, so that formatting,     *)
(* parsing and lexicographic comparison are computed, not assumed.         *)
(***************************************************************************)
EXTENDS Integers, Sequences, FiniteSets, TLC

\* ------------------------------------------------------------------ bounds
\* First day (index) and number of days from which "now" is drawn.
PrimerDia == 16
NumDias == 14

\* ------------------------------------------------------- program constants
TIMEOUT_TOTAL == 900
MAX_ESPERA_TURNOS == 300
INTERVALO_RECARGA == 5
MAX_REINTENTOS_NAVEGACION == 5

\* ------------------------------------------------------------- calendar
Seg(n) == n * 200
DIA == Seg(24 * 60 * 60)
HORA == Seg(60 * 60)

Instante(dia, t) == dia * DIA + t
DiaDe(t) == t \div DIA
HoraDelDia(t) == t % DIA

\* datetime.weekday(): Monday = 0 ... Sunday = 6.  2026-02-01 is a Sunday.
Weekday(t) == (DiaDe(t) + 5) % 7

\* datetime.hour
Hour(t) == HoraDelDia(t) \div HORA

\* The calendar date (year, month, day) of a day index; February 2026 has
\* 28 days, March 31.
FechaDeDia(dia) ==
    IF dia <= 28 THEN [anio |-> 2026, mes |-> 2, dia |-> dia]
    ELSE IF dia <= 59 THEN [anio |-> 2026, mes |-> 3, dia |-> dia - 28]
    ELSE [anio |-> 2026, mes |-> 4, dia |-> dia - 59]

Ventana == 1..89

\* datetime(year, month, day, hour, minute, second, tzinfo=TIMEZONE): the
\* constructor raises ValueError when a component is out of range.
DatetimeValido(hora, minuto, segundo) ==
    /\ hora \in 0..23
    /\ minuto \in 0..59
    /\ segundo \in 0..59

Datetime(anio, mes, d, hora, minuto, segundo) ==
    LET dia == CHOOSE k \in Ventana :
                   FechaDeDia(k) = [anio |-> anio, mes |-> mes, dia |-> d]
    IN Instante(dia, Seg((hora * 60 + minuto) * 60 + segundo))

\* timedelta(days=n) added to an aware datetime: wall-clock arithmetic.
MasDias(t, n) == t + n * DIA

\* ------------------------------------------------------------- strings
Digitos == <<"0", "1", "2", "3", "4", "5", "6", "7", "8", "9">>
EsDigito(c) == \E i \in 1..10 : Digitos[i] = c
ValorDigito(c) == (CHOOSE i \in 1..10 : Digitos[i] = c) - 1

\* Code point of a character (the order Python compares strings by).
Ord(c) ==
    CASE c = "-" -> 45
      [] c = "/" -> 47
      [] EsDigito(c) -> 48 + ValorDigito(c)
      [] c = ":" -> 58
      [] OTHER -> 120

Pad2(n) == <<Digitos[(n \div 10) + 1], Digitos[(n % 10) + 1]>>
Pad4(n) == Pad2(n \div 100) \o Pad2(n % 100)

\* strftime("%Y-%m-%d") and strftime("%d/%m/%Y") of an instant.
StrfISO(t) ==
    LET f == FechaDeDia(DiaDe(t))
    IN Pad4(f.anio) \o <<"-">> \o Pad2(f.mes) \o <<"-">> \o Pad2(f.dia)

StrfDMY(t) ==
    LET f == FechaDeDia(DiaDe(t))
    IN Pad2(f.dia) \o <<"/">> \o Pad2(f.mes) \o <<"/">> \o Pad4(f.anio)

\* Python's a >= b on strings: lexicographic by code point, a proper prefix
\* being smaller.
RECURSIVE StrGE(_, _)
StrGE(a, b) ==
    IF b = <<>> THEN TRUE
    ELSE IF a = <<>> THEN FALSE
    ELSE IF Ord(Head(a)) # Ord(Head(b)) THEN Ord(Head(a)) > Ord(Head(b))
    ELSE StrGE(Tail(a), Tail(b))

\* str.split(":"): the parts between the separators (always at least one).
RECURSIVE SplitDesde(_, _, _)
SplitDesde(s, i, actual) ==
    IF i > Len(s) THEN <<actual>>
    ELSE IF s[i] = ":" THEN <<actual>> \o SplitDesde(s, i + 1, <<>>)
    ELSE SplitDesde(s, i + 1, Append(actual, s[i]))

Split(s) == SplitDesde(s, 1, <<>>)

\* int(text) for the decimal forms: digits with an optional leading "-";
\* anything else raises ValueError.
RECURSIVE ValorDecimal(_)
ValorDecimal(s) ==
    IF s = <<>> THEN 0
    ELSE 10 * ValorDecimal(SubSeq(s, 1, Len(s) - 1)) + ValorDigito(s[Len(s)])

TodoDigitos(s) == s # <<>> /\ \A i \in 1..Len(s) : EsDigito(s[i])

ParseInt(s) ==
    IF TodoDigitos(s) THEN [ok |-> TRUE, valor |-> ValorDecimal(s)]
    ELSE IF s # <<>> /\ s[1] = "-" /\ TodoDigitos(Tail(s))
    THEN [ok |-> TRUE, valor |-> 0 - ValorDecimal(Tail(s))]
    ELSE [ok |-> FALSE, valor |-> 0]

\* An optional string: os.getenv(...) or an attribute that may be None.
Nulo == [presente |-> FALSE, valor |-> <<>>]
Str(s) == [presente |-> TRUE, valor |-> s]

\* -------------------------------------------------------- Date Calculator
\* Faulty variant of lines 32-34: a distance of 0 is not replaced by 7.
DiasHastaMiercolesSinAjuste(ahora_) == (2 - Weekday(ahora_)) % 7

\* calcular_proximo_miercoles, lines 32-34, as a function of the instant
\* read by datetime.now(TIMEZONE).
DiasHastaMiercoles(ahora_) ==
    LET dias_hasta_miercoles == (2 - Weekday(ahora_)) % 7
    IN IF dias_hasta_miercoles = 0 THEN 7 ELSE dias_hasta_miercoles

calcular_proximo_miercoles(ahora_) == MasDias(ahora_, DiasHastaMiercoles(ahora_))

\* -------------------------------------------------- Target-Instant Resolver
\* The default of obtener_hora_objetivo: 00:00:01 of tomorrow when the local
\* hour is >= 12, of today otherwise.
MedianocheDefault(ahora_) ==
    LET f == FechaDeDia(DiaDe(ahora_))
        fm == FechaDeDia(DiaDe(MasDias(ahora_, 1)))
    IN IF Hour(ahora_) >= 12
       THEN Datetime(fm.anio, fm.mes, fm.dia, 0, 0, 1)
       ELSE Datetime(f.anio, f.mes, f.dia, 0, 0, 1)

\* Faulty variant of lines 56-57: the candidate is never moved to tomorrow.
YaPasoNunca(objetivo_, ahora_) == FALSE

\* Faulty variant of line 56: objetivo < ahora.
YaPasoEstricto(objetivo_, ahora_) == objetivo_ < ahora_

\* Line 56: the override branch rolls a candidate forward when
\* objetivo <= ahora.
YaPaso(objetivo_, ahora_) == objetivo_ <= ahora_

\* obtener_hora_objetivo: the result is [excepcion, valor]; excepcion is
\* "ninguna" when an instant is returned and "IndexError" when partes[1]
\* does not exist (only ValueError is caught).
obtener_hora_objetivo(ahora_, env) ==
    LET partes == Split(env.valor)
        hora == ParseInt(partes[1])
        minuto == ParseInt(partes[2])
        segundo == IF Len(partes) >= 3 THEN ParseInt(partes[3])
                   ELSE [ok |-> TRUE, valor |-> 0]
        f == FechaDeDia(DiaDe(ahora_))
        candidato == Datetime(f.anio, f.mes, f.dia,
                              hora.valor, minuto.valor, segundo.valor)
        por_defecto == [excepcion |-> "ninguna", valor |-> MedianocheDefault(ahora_)]
    IN IF env.presente /\ env.valor # <<>>
       THEN IF ~hora.ok THEN por_defecto
            ELSE IF Len(partes) < 2 THEN [excepcion |-> "IndexError", valor |-> 0]
            ELSE IF ~minuto.ok \/ ~segundo.ok THEN por_defecto
            ELSE IF ~DatetimeValido(hora.valor, minuto.valor, segundo.valor)
            THEN por_defecto
            ELSE IF YaPaso(candidato, ahora_)
            THEN [excepcion |-> "ninguna", valor |-> MasDias(candidato, 1)]
            ELSE [excepcion |-> "ninguna", valor |-> candidato]
       ELSE por_defecto

\* ----------------------------------------------------------------- bounds
\* Largest max_reintentos the navigator is called with on its own.
MaxReintentosArg == 6
\* Caps on the constraint reads of one poller call and on the submission
\* attempts of one retrier call explored by the model.
MaxLecturas == 3
MaxIntentosEnvio == 3
\* A browser-driver call returns at once or after Salto units of 5 ms.
Salto == 60000

\* Longest lateness of a sleep or clock read of the waiter, in units of
\* 5 ms, and largest offset, in the same units, added to the times before
\* the target at which the waiter is entered on its own.
RetrasoMax == 600
MaxDesfase == 3
\* Cap on the submission attempts explored for the retrier on its own.
MaxIntentosSolo == 6
\* Attempts explored where the retrier runs until its budget is spent: more
\* than the budget allows, so that this bound is never what stops it.
MaxIntentosJusto == 60
\* Largest number of recipients enviar_email is called with on its own.
MaxDestinatarios == 4

Demoras == {0, Salto}

Min(a, b) == IF a <= b THEN a ELSE b

\* ------------------------------------------------------------------ state
VARIABLES
    pc,             \* position of the single thread of control
    ahora,          \* datetime.now(TIMEZONE)
    HORA_OBJETIVO,  \* os.getenv("HORA_OBJETIVO")
    MODO_TEST,      \* the test-mode flag
    RESEND_API_KEY, \* os.getenv("RESEND_API_KEY")
    EMAIL_DESTINATARIO, \* os.getenv("EMAIL_DESTINATARIO")
    fecha_visita,   \* run: result of calcular_proximo_miercoles (0: not yet)
    objetivo,       \* esperar_hasta_hora_objetivo: the target (0: not yet)
    espera_llamada, \* esperar_hasta_hora_objetivo has been called
    reloj,          \* time.time() - inicio of the running timed loop
    nav,            \* frame of navegar_con_reintentos
    turnos,         \* frame of esperar_turnos_disponibles
    envio,          \* frame of enviar_formulario_con_reintentos
    max_attr,       \* esperar_turnos_disponibles: last value of max
    gotoCalls,      \* page.goto calls made so far
    pagina,         \* what the page holds
    fecha_str,      \* run: result of preparar_formulario
    browser,        \* "no", "abierto", "cerrado"
    emails,         \* calls of enviar_email
    correo,         \* frame of enviar_email
    excepcion       \* the exception that escaped run ("ninguna": none)

vars == <<pc, ahora, HORA_OBJETIVO, MODO_TEST, RESEND_API_KEY,
          EMAIL_DESTINATARIO, fecha_visita, objetivo, espera_llamada, reloj,
          nav, turnos, envio, max_attr, gotoCalls, pagina, fecha_str, browser,
          emails, correo, excepcion>>

entorno == <<HORA_OBJETIVO, MODO_TEST, RESEND_API_KEY, EMAIL_DESTINATARIO>>
navegador == <<nav, turnos, envio, max_attr, gotoCalls, pagina, fecha_str,
               browser, emails, correo>>

\* A frame not in use, and a fresh one.
NavVacio == [max |-> 0, intento |-> 0, gotos |-> 0, fallos |-> 0,
             sleeps |-> <<>>, resultado |-> "", ret |-> ""]
NavNuevo(max_reintentos, ret) ==
    [max |-> max_reintentos, intento |-> 1, gotos |-> 0, fallos |-> 0,
     sleeps |-> <<>>, resultado |-> "", ret |-> ret]

TurnosVacio == [intento |-> 0, cargas |-> 0, lecturas |-> <<>>,
                sleeps |-> <<>>, resultado |-> ""]

EnvioVacio == [intento |-> 0, clicks |-> 0, screenshots |-> 0,
               captura |-> "", sleeps |-> <<>>, recargas |-> 0,
               refills |-> 0, resultado |-> "", origen |-> ""]

CorreoVacio == [destinatarios |-> <<>>, envios |-> <<>>, exitos |-> 0,
                resultado |-> ""]

InitComun ==
    /\ fecha_visita = 0
    /\ objetivo = 0
    /\ espera_llamada = FALSE
    /\ reloj = 0
    /\ turnos = TurnosVacio
    /\ envio = EnvioVacio
    /\ max_attr = Nulo
    /\ gotoCalls = 0
    /\ pagina = "blank"
    /\ fecha_str = <<>>
    /\ browser = "no"
    /\ emails = 0
    /\ correo = CorreoVacio
    /\ excepcion = "ninguna"

\* ---------------------------------------------------------------- run()
\* run, lines 319-339: the visit date, then the wait unless MODO_TEST.
RunInicio ==
    /\ pc = "run"
    /\ fecha_visita' = calcular_proximo_miercoles(ahora)
    /\ pc' = IF MODO_TEST THEN "lanzar" ELSE "esperar_hora"
    /\ UNCHANGED <<ahora, entorno, objetivo, espera_llamada, reloj,
                   navegador, excepcion>>

\* ------------------------------------------------------- Precision Waiter
\* Faulty variant of line 81: segundos_restantes < 0.
EntradaEsperaEstricta(segundos_restantes) ==
    IF segundos_restantes < 0 THEN "inmediato"
    ELSE IF segundos_restantes > Seg(300) THEN "error"
    ELSE "esperar"

\* esperar_hasta_hora_objetivo, lines 76-87: what the remaining time at
\* entry leads to.
EntradaEspera(segundos_restantes) ==
    IF segundos_restantes <= 0 THEN "inmediato"
    ELSE IF segundos_restantes > Seg(300) THEN "error"
    ELSE "esperar"

EsperarEntrada ==
    /\ pc = "esperar_hora"
    /\ espera_llamada' = TRUE
    /\ LET r == obtener_hora_objetivo(ahora, HORA_OBJETIVO)
           entrada == EntradaEspera(r.valor - ahora)
       IN IF r.excepcion # "ninguna"
          THEN /\ pc' = "error"
               /\ excepcion' = r.excepcion
               /\ UNCHANGED objetivo
          ELSE /\ objetivo' = r.valor
               /\ pc' = CASE entrada = "inmediato" -> "lanzar"
                          [] entrada = "error" -> "error"
                          [] OTHER -> "espera_gruesa"
               /\ excepcion' = IF entrada = "error" THEN "Exception"
                               ELSE excepcion
    /\ UNCHANGED <<ahora, entorno, fecha_visita, reloj, navegador>>

\* Faulty variant of lines 98-104: 5 s sleeps down to the last 2 s.
EsperaGruesaLarga(retrasos) ==
    /\ pc = "espera_gruesa"
    /\ \E retraso \in retrasos :
           LET leido == ahora + retraso
               segundos_restantes == objetivo - leido
           IN IF segundos_restantes <= Seg(2)
              THEN pc' = "espera_fina" /\ ahora' = leido
              ELSE ahora' = leido + Seg(5) /\ UNCHANGED pc
    /\ UNCHANGED <<entorno, fecha_visita, objetivo, espera_llamada, reloj,
                   navegador, excepcion>>

\* Lines 94-104: one iteration of the coarse loop. The clock is read
\* `retraso` after the previous sleep was due to end (time.sleep lasts at
\* least what it is asked, and the read takes time); then the loop ends or
\* sleeps 5 s or 0.5 s.
EsperaGruesaCon(retrasos) ==
    /\ pc = "espera_gruesa"
    /\ \E retraso \in retrasos :
           LET leido == ahora + retraso
               segundos_restantes == objetivo - leido
           IN IF segundos_restantes <= Seg(2)
              THEN pc' = "espera_fina" /\ ahora' = leido
              ELSE IF segundos_restantes > Seg(10)
              THEN ahora' = leido + Seg(5) /\ UNCHANGED pc
              ELSE ahora' = leido + Seg(1) \div 2 /\ UNCHANGED pc
    /\ UNCHANGED <<entorno, fecha_visita, objetivo, espera_llamada, reloj,
                   navegador, excepcion>>

\* Faulty variant of line 109: the fine loop ends one sleep early.
EsperaFinaPrisa(retrasos) ==
    /\ pc = "espera_fina"
    /\ \E retraso \in retrasos :
           LET leido == ahora + retraso
           IN IF leido + Seg(1) \div 100 >= objetivo
              THEN pc' = "lanzar" /\ ahora' = leido
              ELSE ahora' = leido + Seg(1) \div 100 /\ UNCHANGED pc
    /\ UNCHANGED <<entorno, fecha_visita, objetivo, espera_llamada, reloj,
                   navegador, excepcion>>

\* Lines 107-112: one iteration of the fine loop: the clock is read, and the
\* function returns when the instant read is >= objetivo, or sleeps 10 ms.
EsperaFinaCon(retrasos) ==
    /\ pc = "espera_fina"
    /\ \E retraso \in retrasos :
           LET leido == ahora + retraso
           IN IF leido >= objetivo
              THEN pc' = "lanzar" /\ ahora' = leido
              ELSE ahora' = leido + Seg(1) \div 100 /\ UNCHANGED pc
    /\ UNCHANGED <<entorno, fecha_visita, objetivo, espera_llamada, reloj,
                   navegador, excepcion>>

\* Every sleep lasts exactly what it is asked and the reads take no time.
EsperaGruesa == EsperaGruesaCon({0})

EsperaFina == EsperaFinaCon({0})

\* Sleeps and reads may be late by up to RetrasoMax.
Retrasos == {0, 1, RetrasoMax}

EsperaGruesaTarde == EsperaGruesaCon(Retrasos)

EsperaFinaTarde == EsperaFinaCon(Retrasos)

\* --------------------------------------------------------- Page Navigator
\* Faulty variant of line 182: the backoff is not capped.
EsperaNavSinTope(intento) == 2 ^ intento

\* navegar_con_reintentos, line 182: the backoff after failed attempt
\* `intento`, in seconds.
EsperaNav(intento) == Min(2 ^ intento, 15)

\* Faulty variant of line 181: the last failed attempt sleeps too.
QuedanReintentosSiempre(intento, max_reintentos) == TRUE

\* Line 181: a failed attempt is followed by a sleep and another attempt
\* unless it was the last one.
QuedanReintentos(intento, max_reintentos) == intento < max_reintentos

\* Lines 175-178: goto and wait_for_selector both succeed; returns True.
NavIntentoOk ==
    /\ pc = "nav_intento"
    /\ nav.intento <= nav.max
    /\ \E d \in Demoras :
           reloj' = reloj + d
    /\ gotoCalls' = gotoCalls + 1
    /\ pagina' = "cargada"
    /\ nav' = [nav EXCEPT !.gotos = @ + 1, !.resultado = "True"]
    /\ pc' = "nav_ok"
    /\ UNCHANGED <<ahora, entorno, fecha_visita, objetivo, espera_llamada,
                   turnos, envio, max_attr, fecha_str, browser, emails, correo,
                   excepcion>>

\* Lines 179-184: goto raises, or goto returns and wait_for_selector raises;
\* attempts remain, so sleep and go round the loop.
NavIntentoFalla ==
    /\ pc = "nav_intento"
    /\ nav.intento <= nav.max
    /\ QuedanReintentos(nav.intento, nav.max)
    /\ \E d \in Demoras, falla \in {"goto", "wait_for_selector"} :
           /\ reloj' = reloj + d + Seg(EsperaNav(nav.intento))
           /\ pagina' = IF falla = "goto" THEN "blank" ELSE "sin_select"
    /\ gotoCalls' = gotoCalls + 1
    /\ nav' = [nav EXCEPT !.gotos = @ + 1, !.fallos = @ + 1,
                          !.sleeps = Append(@, Seg(EsperaNav(nav.intento))),
                          !.intento = @ + 1]
    /\ UNCHANGED <<pc, ahora, entorno, fecha_visita, objetivo, espera_llamada,
                   turnos, envio, max_attr, fecha_str, browser, emails, correo,
                   excepcion>>

\* Lines 185-186: the last attempt fails; raises.
NavIntentoAgotado ==
    /\ pc = "nav_intento"
    /\ nav.intento <= nav.max
    /\ ~QuedanReintentos(nav.intento, nav.max)
    /\ \E d \in Demoras, falla \in {"goto", "wait_for_selector"} :
           /\ reloj' = reloj + d
           /\ pagina' = IF falla = "goto" THEN "blank" ELSE "sin_select"
    /\ gotoCalls' = gotoCalls + 1
    /\ nav' = [nav EXCEPT !.gotos = @ + 1, !.fallos = @ + 1,
                          !.resultado = "raise"]
    /\ pc' = "nav_raise"
    /\ UNCHANGED <<ahora, entorno, fecha_visita, objetivo, espera_llamada,
                   turnos, envio, max_attr, fecha_str, browser, emails, correo,
                   excepcion>>

\* ------------------------------------- cargar_pagina_y_seleccionar_unidad
\* An exception leaving enviar_formulario_con_reintentos is recorded in its
\* frame; one leaving esperar_turnos_disponibles only ends run.
EnvioSiLlamo(ret, origen) ==
    IF ret = "envio"
    THEN [envio EXCEPT !.resultado = "raise", !.origen = origen]
    ELSE envio

\* Line 191: the navigator raised; nothing here catches it.
CargarPropaga ==
    /\ pc = "nav_raise"
    /\ nav.ret \in {"turnos", "envio"}
    /\ pc' = "error"
    /\ excepcion' = "navegar_con_reintentos"
    /\ envio' = EnvioSiLlamo(nav.ret, "recarga")
    /\ nav' = NavVacio
    /\ UNCHANGED <<ahora, entorno, fecha_visita, objetivo, espera_llamada,
                   reloj, turnos, max_attr, gotoCalls, pagina, fecha_str,
                   browser, emails, correo>>

\* Lines 192-196: wait 1 s, select the unit, wait 0.5 s; back to the caller.
CargarSeleccionaUnidad ==
    /\ pc = "nav_ok"
    /\ nav.ret \in {"turnos", "envio"}
    /\ reloj' = reloj + Seg(1) + Seg(1) \div 2
    /\ pagina' = "unidad"
    /\ pc' = IF nav.ret = "turnos" THEN "turnos_leer" ELSE "envio_refill"
    /\ nav' = NavVacio
    /\ UNCHANGED <<ahora, entorno, fecha_visita, objetivo, espera_llamada,
                   turnos, envio, max_attr, gotoCalls, fecha_str, browser,
                   emails, correo, excepcion>>

\* Line 195: select_option raises.
CargarUnidadFalla ==
    /\ pc = "nav_ok"
    /\ nav.ret \in {"turnos", "envio"}
    /\ reloj' = reloj + Seg(1)
    /\ pc' = "error"
    /\ excepcion' = "select_option"
    /\ envio' = EnvioSiLlamo(nav.ret, "recarga")
    /\ nav' = NavVacio
    /\ UNCHANGED <<ahora, entorno, fecha_visita, objetivo, espera_llamada,
                   turnos, max_attr, gotoCalls, pagina, fecha_str, browser,
                   emails, correo>>

\* ------------------------------------------------------ Availability Poller
\* Values the date field's max attribute is read with: absent, or the ISO
\* date one week before, on, or one week after the visit date.
Semanas == {0 - 1, 0, 1}
ValoresMax == {Nulo} \cup {Str(StrfISO(MasDias(fecha_visita, 7 * k))) : k \in Semanas}

\* Faulty variants of line 250: None treated as not satisfying; > for >=.
SatisfaceSinNone(max_attr_, fecha_objetivo) ==
    max_attr_.presente /\ StrGE(max_attr_.valor, fecha_objetivo)

SatisfaceEstricto(max_attr_, fecha_objetivo) ==
    \/ ~max_attr_.presente
    \/ StrGE(max_attr_.valor, fecha_objetivo) /\ max_attr_.valor # fecha_objetivo

\* Line 250: max_attr is None or max_attr >= fecha_objetivo.
Satisface(max_attr_, fecha_objetivo) ==
    \/ ~max_attr_.presente
    \/ StrGE(max_attr_.valor, fecha_objetivo)

\* Faulty variant of line 255: the budget is never found spent.
EsperaAgotadaNunca(transcurrido) == FALSE

\* Line 255: transcurrido >= MAX_ESPERA_TURNOS.
EsperaAgotada(transcurrido) == transcurrido >= Seg(MAX_ESPERA_TURNOS)

\* Lines 348 and 234-237: the browser is launched and the poller entered.
Lanzar ==
    /\ pc = "lanzar"
    /\ browser' = "abierto"
    /\ reloj' = 0
    /\ turnos' = TurnosVacio
    /\ pc' = "turnos_loop"
    /\ UNCHANGED <<ahora, entorno, fecha_visita, objetivo, espera_llamada,
                   nav, envio, max_attr, gotoCalls, pagina, fecha_str,
                   emails, correo, excepcion>>

\* Lines 240-243: next iteration; calls cargar_pagina_y_seleccionar_unidad.
TurnosLoop ==
    /\ pc = "turnos_loop"
    /\ turnos.intento < MaxLecturas
    /\ turnos' = [turnos EXCEPT !.intento = @ + 1, !.cargas = @ + 1]
    /\ nav' = NavNuevo(MAX_REINTENTOS_NAVEGACION, "turnos")
    /\ pc' = "nav_intento"
    /\ UNCHANGED <<ahora, entorno, fecha_visita, objetivo, espera_llamada,
                   reloj, envio, max_attr, gotoCalls, pagina, fecha_str,
                   browser, emails, correo, excepcion>>

\* Lines 245-246: get_attribute("max") returns.
TurnosLeer ==
    /\ pc = "turnos_leer"
    /\ \E v \in ValoresMax :
           /\ max_attr' = v
           /\ turnos' = [turnos EXCEPT !.lecturas = Append(@, v)]
    /\ pc' = "turnos_decidir"
    /\ UNCHANGED <<ahora, entorno, fecha_visita, objetivo, espera_llamada,
                   reloj, nav, envio, gotoCalls, pagina, fecha_str, browser,
                   emails, correo, excepcion>>

\* Line 246: get_attribute raises.
TurnosLeerFalla ==
    /\ pc = "turnos_leer"
    /\ pc' = "error"
    /\ excepcion' = "get_attribute"
    /\ UNCHANGED <<ahora, entorno, fecha_visita, objetivo, espera_llamada,
                   reloj, navegador>>

\* Lines 250-252: the constraint allows the date; returns True.
TurnosDisponibles ==
    /\ pc = "turnos_decidir"
    /\ Satisface(max_attr, StrfISO(fecha_visita))
    /\ turnos' = [turnos EXCEPT !.resultado = "True"]
    /\ pc' = "preparar"
    /\ UNCHANGED <<ahora, entorno, fecha_visita, objetivo, espera_llamada,
                   reloj, nav, envio, max_attr, gotoCalls, pagina, fecha_str,
                   browser, emails, correo, excepcion>>

\* Faulty variant of lines 250-258: the budget is consulted before the
\* value read.
TurnosTimeoutPrimero ==
    /\ pc = "turnos_decidir"
    /\ EsperaAgotada(reloj)
    /\ turnos' = [turnos EXCEPT !.resultado = "False"]
    /\ pc' = "abortar"
    /\ UNCHANGED <<ahora, entorno, fecha_visita, objetivo, espera_llamada,
                   reloj, nav, envio, max_attr, gotoCalls, pagina, fecha_str,
                   browser, emails, correo, excepcion>>

\* Lines 254-258: not allowed and the budget is spent; returns False.
TurnosTimeout ==
    /\ pc = "turnos_decidir"
    /\ ~Satisface(max_attr, StrfISO(fecha_visita))
    /\ EsperaAgotada(reloj)
    /\ turnos' = [turnos EXCEPT !.resultado = "False"]
    /\ pc' = "abortar"
    /\ UNCHANGED <<ahora, entorno, fecha_visita, objetivo, espera_llamada,
                   reloj, nav, envio, max_attr, gotoCalls, pagina, fecha_str,
                   browser, emails, correo, excepcion>>

\* Lines 260-262: not allowed and time remains; sleeps INTERVALO_RECARGA.
TurnosReintenta ==
    /\ pc = "turnos_decidir"
    /\ ~Satisface(max_attr, StrfISO(fecha_visita))
    /\ ~EsperaAgotada(reloj)
    /\ reloj' = reloj + Seg(INTERVALO_RECARGA)
    /\ turnos' = [turnos EXCEPT !.sleeps = Append(@, Seg(INTERVALO_RECARGA))]
    /\ pc' = "turnos_loop"
    /\ UNCHANGED <<ahora, entorno, fecha_visita, objetivo, espera_llamada,
                   nav, envio, max_attr, gotoCalls, pagina, fecha_str,
                   browser, emails, correo, excepcion>>

\* Faulty variant of lines 349-352: run goes on to fill the form.
AbortarSigue ==
    /\ pc = "abortar"
    /\ pc' = "preparar"
    /\ UNCHANGED <<ahora, entorno, fecha_visita, objetivo, espera_llamada,
                   reloj, navegador, excepcion>>

\* Lines 349-352: the poller returned False; the browser is closed and run
\* returns None.
Abortar ==
    /\ pc = "abortar"
    /\ browser' = "cerrado"
    /\ pc' = "fin"
    /\ UNCHANGED <<ahora, entorno, fecha_visita, objetivo, espera_llamada,
                   reloj, nav, turnos, envio, max_attr, gotoCalls, pagina,
                   fecha_str, emails, correo, excepcion>>

\* ------------------------------------------------------------- Form Filler
\* The field operations of preparar_formulario, in order (lines 204-223).
Campos == <<"nombre", "apellido", "fecha", "documento", "menores">>

\* Faulty variant of preparar_formulario: it loads the page before filling.
preparar_formulario_navega(falla) ==
    /\ pagina' = IF falla = 0 THEN "llena" ELSE "parcial"
    /\ gotoCalls' = gotoCalls + 1

\* preparar_formulario, lines 199-226: what it does to the page; falla is
\* the index of the first field operation that raises (0: none does).
preparar_formulario(falla) ==
    /\ pagina' = IF falla = 0 THEN "llena" ELSE "parcial"
    /\ gotoCalls' = gotoCalls

\* Line 356: run fills the form on the page the poller left.
RunPreparar ==
    /\ pc = "preparar"
    /\ \E falla \in 0..Len(Campos) :
           /\ preparar_formulario(falla)
           /\ IF falla = 0
              THEN /\ fecha_str' = StrfDMY(fecha_visita)
                   /\ pc' = "envio_inicio"
                   /\ UNCHANGED excepcion
              ELSE /\ pc' = "error"
                   /\ excepcion' = "preparar_formulario"
                   /\ UNCHANGED fecha_str
    /\ turnos' = TurnosVacio
    /\ max_attr' = Nulo
    /\ UNCHANGED <<ahora, entorno, fecha_visita, objetivo, espera_llamada,
                   reloj, nav, envio, browser, emails, correo>>

\* ------------------------------------------------------- Submission Retrier
\* Faulty variant of line 278: the check at the head of the loop never
\* finds the budget spent.
AgotadoNunca(transcurrido) == FALSE

\* Line 278: transcurrido >= TIMEOUT_TOTAL.
Agotado(transcurrido) == transcurrido >= Seg(TIMEOUT_TOTAL)

\* Faulty variant of line 308: the retrier also gives up after its second
\* failed attempt.
QuedaTiempoConTope(transcurrido) ==
    transcurrido < Seg(TIMEOUT_TOTAL) /\ envio.intento < 2

\* Line 308: time.time() - inicio < TIMEOUT_TOTAL.
QuedaTiempo(transcurrido) == transcurrido < Seg(TIMEOUT_TOTAL)

\* Faulty variant of line 309: the backoff is not capped.
EsperaEnvioSinTope(intento) == 2 ^ intento

\* Line 309: the backoff after failed attempt `intento`, in seconds.
EsperaEnvio(intento) == Min(2 ^ Min(intento, 4), 15)

\* Faulty variant of lines 270-272: the retrier loads the page on entry.
EnvioInicioRecarga ==
    /\ pc = "envio_inicio"
    /\ reloj' = 0
    /\ envio' = EnvioVacio
    /\ gotoCalls' = gotoCalls + 1
    /\ pagina' = "llena"
    /\ pc' = "envio_loop"
    /\ UNCHANGED <<ahora, entorno, fecha_visita, objetivo, espera_llamada,
                   nav, turnos, max_attr, fecha_str, browser, emails, correo,
                   excepcion>>

\* Lines 270-272: inicio = time.time(), intento = 0.
EnvioInicio ==
    /\ pc = "envio_inicio"
    /\ reloj' = 0
    /\ envio' = EnvioVacio
    /\ pc' = "envio_loop"
    /\ UNCHANGED <<ahora, entorno, fecha_visita, objetivo, espera_llamada,
                   nav, turnos, max_attr, gotoCalls, pagina, fecha_str,
                   browser, emails, correo, excepcion>>

\* Lines 275-280: the check at the head of the loop finds the budget spent.
EnvioTimeout ==
    /\ pc = "envio_loop"
    /\ Agotado(reloj)
    /\ envio' = [envio EXCEPT !.intento = @ + 1, !.resultado = "None"]
    /\ pc' = "cerrar"
    /\ UNCHANGED <<ahora, entorno, fecha_visita, objetivo, espera_llamada,
                   reloj, nav, turnos, max_attr, gotoCalls, pagina,
                   fecha_str, browser, emails, correo, excepcion>>

\* Lines 275-288: time remains; go on to the attempt. The model explores
\* the attempts up to number `tope`.
EnvioIntentaHasta(tope) ==
    /\ pc = "envio_loop"
    /\ ~Agotado(reloj)
    /\ envio.intento < tope
    /\ envio' = [envio EXCEPT !.intento = @ + 1]
    /\ pc' = "envio_click"
    /\ UNCHANGED <<ahora, entorno, fecha_visita, objetivo, espera_llamada,
                   reloj, nav, turnos, max_attr, gotoCalls, pagina,
                   fecha_str, browser, emails, correo, excepcion>>

\* Within run, and in the retrier on its own.
EnvioIntenta == EnvioIntentaHasta(MaxIntentosEnvio)

EnvioIntentaSolo == EnvioIntentaHasta(MaxIntentosSolo)

EnvioIntentaJusto == EnvioIntentaHasta(MaxIntentosJusto)

\* Lines 290-297: click, the download arrives and is saved; returns the path.
EnvioDescarga ==
    /\ pc = "envio_click"
    /\ \E d \in Demoras :
           reloj' = reloj + d
    /\ envio' = [envio EXCEPT !.clicks = @ + 1, !.resultado = "pdf"]
    /\ pc' = "cerrar"
    /\ UNCHANGED <<ahora, entorno, fecha_visita, objetivo, espera_llamada,
                   nav, turnos, max_attr, gotoCalls, pagina, fecha_str,
                   browser, emails, correo, excepcion>>

\* Faulty variant of lines 290-300: the attempt's exception is not caught.
EnvioFallaSinCapturar ==
    /\ pc = "envio_click"
    /\ \E d \in Demoras :
           reloj' = reloj + d
    /\ envio' = [envio EXCEPT !.clicks = @ + 1, !.resultado = "raise",
                              !.origen = "intento"]
    /\ pc' = "error"
    /\ excepcion' = "intento"
    /\ UNCHANGED <<ahora, entorno, fecha_visita, objetivo, espera_llamada,
                   nav, turnos, max_attr, gotoCalls, pagina, fecha_str,
                   browser, emails, correo>>

\* Lines 290-300: the click, the download wait or save_as raises; the
\* except clause catches it.
EnvioFalla ==
    /\ pc = "envio_click"
    /\ \E d \in Demoras, falla \in {"click", "expect_download", "save_as"} :
           reloj' = reloj + d
    /\ envio' = [envio EXCEPT !.clicks = @ + 1]
    /\ pc' = "envio_screenshot"
    /\ UNCHANGED <<ahora, entorno, fecha_visita, objetivo, espera_llamada,
                   nav, turnos, max_attr, gotoCalls, pagina, fecha_str,
                   browser, emails, correo, excepcion>>

\* Faulty variant of lines 302-306: the exception of page.screenshot is not
\* caught.
EnvioScreenshotSinCapturar ==
    /\ pc = "envio_screenshot"
    /\ \E ok \in BOOLEAN :
           IF ok
           THEN /\ envio' = [envio EXCEPT !.screenshots = @ + 1,
                                          !.captura = "ok"]
                /\ pc' = "envio_check"
                /\ UNCHANGED excepcion
           ELSE /\ envio' = [envio EXCEPT !.screenshots = @ + 1,
                                          !.captura = "falla",
                                          !.resultado = "raise",
                                          !.origen = "screenshot"]
                /\ pc' = "error"
                /\ excepcion' = "screenshot"
    /\ UNCHANGED <<ahora, entorno, fecha_visita, objetivo, espera_llamada,
                   reloj, nav, turnos, max_attr, gotoCalls, pagina,
                   fecha_str, browser, emails, correo>>

\* Lines 301-306: page.screenshot returns or raises; the except clause of
\* line 305 catches it; either way go on to line 308. captura holds the
\* outcome until then: nothing in the code keeps it.
EnvioScreenshot ==
    /\ pc = "envio_screenshot"
    /\ \E ok \in BOOLEAN :
           envio' = [envio EXCEPT !.screenshots = @ + 1,
                                  !.captura = IF ok THEN "ok" ELSE "falla"]
    /\ pc' = "envio_check"
    /\ UNCHANGED <<ahora, entorno, fecha_visita, objetivo, espera_llamada,
                   reloj, nav, turnos, max_attr, gotoCalls, pagina,
                   fecha_str, browser, emails, correo, excepcion>>

\* Faulty variant of lines 308-313: after the backoff the loop goes on
\* without reloading the page or filling the form again.
EnvioReintentaSinRecarga ==
    /\ pc = "envio_check"
    /\ QuedaTiempo(reloj)
    /\ reloj' = reloj + Seg(EsperaEnvio(envio.intento))
    /\ envio' = [envio EXCEPT
                   !.captura = "",
                   !.sleeps = Append(@, Seg(EsperaEnvio(envio.intento)))]
    /\ pc' = "envio_loop"
    /\ UNCHANGED <<ahora, entorno, fecha_visita, objetivo, espera_llamada,
                   nav, turnos, max_attr, gotoCalls, pagina, fecha_str,
                   browser, emails, correo, excepcion>>

\* Faulty variant of lines 308-312: inicio is taken again at each retry, so
\* the elapsed time starts from zero.
EnvioReintentaReinicia ==
    /\ pc = "envio_check"
    /\ QuedaTiempo(reloj)
    /\ reloj' = 0
    /\ envio' = [envio EXCEPT
                   !.captura = "",
                   !.sleeps = Append(@, Seg(EsperaEnvio(envio.intento))),
                   !.recargas = @ + 1]
    /\ nav' = NavNuevo(MAX_REINTENTOS_NAVEGACION, "envio")
    /\ pc' = "nav_intento"
    /\ UNCHANGED <<ahora, entorno, fecha_visita, objetivo, espera_llamada,
                   turnos, max_attr, gotoCalls, pagina, fecha_str, browser,
                   emails, correo, excepcion>>

\* Lines 308-312: time remains; back off, then reload the page.
EnvioReintenta ==
    /\ pc = "envio_check"
    /\ QuedaTiempo(reloj)
    /\ reloj' = reloj + Seg(EsperaEnvio(envio.intento))
    /\ envio' = [envio EXCEPT
                   !.captura = "",
                   !.sleeps = Append(@, Seg(EsperaEnvio(envio.intento))),
                   !.recargas = @ + 1]
    /\ nav' = NavNuevo(MAX_REINTENTOS_NAVEGACION, "envio")
    /\ pc' = "nav_intento"
    /\ UNCHANGED <<ahora, entorno, fecha_visita, objetivo, espera_llamada,
                   turnos, max_attr, gotoCalls, pagina, fecha_str, browser,
                   emails, correo, excepcion>>

\* Lines 314-316: no time remains; returns None.
EnvioSinTiempo ==
    /\ pc = "envio_check"
    /\ ~QuedaTiempo(reloj)
    /\ envio' = [envio EXCEPT !.captura = "", !.resultado = "None"]
    /\ pc' = "cerrar"
    /\ UNCHANGED <<ahora, entorno, fecha_visita, objetivo, espera_llamada,
                   reloj, nav, turnos, max_attr, gotoCalls, pagina,
                   fecha_str, browser, emails, correo, excepcion>>

\* Line 313: the form is filled again; a field operation that raises is
\* outside the try and leaves the function.
EnvioRefill ==
    /\ pc = "envio_refill"
    /\ \E falla \in 0..Len(Campos) :
           /\ preparar_formulario(falla)
           /\ IF falla = 0
              THEN /\ envio' = [envio EXCEPT !.refills = @ + 1]
                   /\ pc' = "envio_loop"
                   /\ UNCHANGED excepcion
              ELSE /\ envio' = [envio EXCEPT !.resultado = "raise",
                                             !.origen = "refill"]
                   /\ pc' = "error"
                   /\ excepcion' = "preparar_formulario"
    /\ UNCHANGED <<ahora, entorno, fecha_visita, objetivo, espera_llamada,
                   reloj, nav, turnos, max_attr, fecha_str, browser, emails, correo>>

\* Line 361: browser.close().
Cerrar ==
    /\ pc = "cerrar"
    /\ browser' = "cerrado"
    /\ pc' = "notificar"
    /\ UNCHANGED <<ahora, entorno, fecha_visita, objetivo, espera_llamada,
                   reloj, nav, turnos, envio, max_attr, gotoCalls, pagina,
                   fecha_str, emails, correo, excepcion>>

\* Faulty variant of lines 363-365: enviar_email is called whatever the
\* retrier returned.
NotificarSiempre ==
    /\ pc = "notificar"
    /\ emails' = emails + 1
    /\ correo' = CorreoVacio
    /\ pc' = "email_inicio"
    /\ UNCHANGED <<ahora, entorno, fecha_visita, objetivo, espera_llamada,
                   reloj, nav, turnos, envio, max_attr, gotoCalls, pagina,
                   fecha_str, browser, excepcion>>

\* Lines 363-367: enviar_email is called when there is a PDF (save_as has
\* written it, so pdf_path.exists()); otherwise run returns.
Notificar ==
    /\ pc = "notificar"
    /\ IF envio.resultado = "pdf"
       THEN /\ emails' = emails + 1
            /\ correo' = CorreoVacio
            /\ pc' = "email_inicio"
       ELSE /\ pc' = "fin"
            /\ UNCHANGED <<emails, correo>>
    /\ UNCHANGED <<ahora, entorno, fecha_visita, objetivo, espera_llamada,
                   reloj, nav, turnos, envio, max_attr, gotoCalls, pagina,
                   fecha_str, browser, excepcion>>

\* ----------------------------------------------------------------- Notifier
\* str.split(","): the parts between the commas (always at least one).
RECURSIVE SplitComaDesde(_, _, _)
SplitComaDesde(s, i, actual) ==
    IF i > Len(s) THEN <<actual>>
    ELSE IF s[i] = "," THEN <<actual>> \o SplitComaDesde(s, i + 1, <<>>)
    ELSE SplitComaDesde(s, i + 1, Append(actual, s[i]))

SplitComa(s) == SplitComaDesde(s, 1, <<>>)

\* str.strip(): without the blanks at either end.
RECURSIVE LStrip(_)
LStrip(s) == IF s # <<>> /\ Head(s) = " " THEN LStrip(Tail(s)) ELSE s

RECURSIVE RStrip(_)
RStrip(s) ==
    IF s # <<>> /\ s[Len(s)] = " " THEN RStrip(SubSeq(s, 1, Len(s) - 1)) ELSE s

Strip(s) == RStrip(LStrip(s))

\* Line 126: [email.strip() for email in EMAIL_DESTINATARIO.split(",")].
Destinatarios(texto) ==
    [k \in 1..Len(SplitComa(texto)) |-> Strip(SplitComa(texto)[k])]

\* Line 115: not RESEND_API_KEY or not EMAIL_DESTINATARIO.
Configurado(valor) == valor.presente /\ valor.valor # <<>>

\* Lines 115-117: a credential is missing; returns False.
EmailSinCredenciales ==
    /\ pc = "email_inicio"
    /\ ~(Configurado(RESEND_API_KEY) /\ Configurado(EMAIL_DESTINATARIO))
    /\ correo' = [correo EXCEPT !.resultado = "False"]
    /\ pc' = "fin"
    /\ UNCHANGED <<ahora, entorno, fecha_visita, objetivo, espera_llamada,
                   reloj, nav, turnos, envio, max_attr, gotoCalls, pagina,
                   fecha_str, browser, emails, excepcion>>

\* Lines 119-129: the PDF is read, the recipients are split; exitos = 0.
EmailPrepara ==
    /\ pc = "email_inicio"
    /\ Configurado(RESEND_API_KEY) /\ Configurado(EMAIL_DESTINATARIO)
    /\ correo' = [correo EXCEPT
                    !.destinatarios = Destinatarios(EMAIL_DESTINATARIO.valor),
                    !.exitos = 0]
    /\ pc' = "email_bucle"
    /\ UNCHANGED <<ahora, entorno, fecha_visita, objetivo, espera_llamada,
                   reloj, nav, turnos, envio, max_attr, gotoCalls, pagina,
                   fecha_str, browser, emails, excepcion>>

\* The recipient the for loop of line 130 is at.
Destinatario == correo.destinatarios[Len(correo.envios) + 1]

\* Lines 130-160: resend.Emails.send returns; exitos += 1.
EmailEnvia ==
    /\ pc = "email_bucle"
    /\ Len(correo.envios) < Len(correo.destinatarios)
    /\ correo' = [correo EXCEPT
                    !.envios = Append(@, [a |-> Destinatario, ok |-> TRUE]),
                    !.exitos = @ + 1]
    /\ UNCHANGED <<pc, ahora, entorno, fecha_visita, objetivo, espera_llamada,
                   reloj, nav, turnos, envio, max_attr, gotoCalls, pagina,
                   fecha_str, browser, emails, excepcion>>

\* Faulty variant of lines 157-162: the exception of send is not caught.
EmailFallaSinCapturar ==
    /\ pc = "email_bucle"
    /\ Len(correo.envios) < Len(correo.destinatarios)
    /\ correo' = [correo EXCEPT
                    !.envios = Append(@, [a |-> Destinatario, ok |-> FALSE]),
                    !.resultado = "raise"]
    /\ pc' = "error"
    /\ excepcion' = "send"
    /\ UNCHANGED <<ahora, entorno, fecha_visita, objetivo, espera_llamada,
                   reloj, nav, turnos, envio, max_attr, gotoCalls, pagina,
                   fecha_str, browser, emails>>

\* Lines 157-162: resend.Emails.send raises; the except clause logs it and
\* the loop goes on.
EmailFalla ==
    /\ pc = "email_bucle"
    /\ Len(correo.envios) < Len(correo.destinatarios)
    /\ correo' = [correo EXCEPT
                    !.envios = Append(@, [a |-> Destinatario, ok |-> FALSE])]
    /\ UNCHANGED <<pc, ahora, entorno, fecha_visita, objetivo, espera_llamada,
                   reloj, nav, turnos, envio, max_attr, gotoCalls, pagina,
                   fecha_str, browser, emails, excepcion>>

\* Lines 164-165: the loop is over; returns exitos > 0.
EmailFin ==
    /\ pc = "email_bucle"
    /\ Len(correo.envios) = Len(correo.destinatarios)
    /\ correo' = [correo EXCEPT
                    !.resultado = IF correo.exitos > 0 THEN "True" ELSE "False"]
    /\ pc' = "fin"
    /\ UNCHANGED <<ahora, entorno, fecha_visita, objetivo, espera_llamada,
                   reloj, nav, turnos, envio, max_attr, gotoCalls, pagina,
                   fecha_str, browser, emails, excepcion>>

\* ---------------------------------------------------------- specifications
\* run(), from three instants: 12 s before the default target (Monday
\* 2026-02-16 23:59:49), 4 s after it (Thursday 2026-02-26 00:00:05), and
\* half a day before it (Monday 2026-02-16 12:00:00).
AhoraRun == {Instante(16, DIA - Seg(11)), Instante(26, Seg(5)),
             Instante(16, 12 * HORA)}

Init ==
    /\ pc = "run"
    /\ ahora \in AhoraRun
    /\ HORA_OBJETIVO = Nulo
    /\ MODO_TEST \in BOOLEAN
    /\ RESEND_API_KEY = Str(<<"k">>)
    /\ EMAIL_DESTINATARIO \in {Nulo, Str(<<"a", ",", " ", "b">>)}
    /\ nav = NavVacio
    /\ InitComun

Next ==
    \/ RunInicio
    \/ EsperarEntrada
    \/ EsperaGruesa
    \/ EsperaFina
    \/ Lanzar
    \/ TurnosLoop
    \/ NavIntentoOk
    \/ NavIntentoFalla
    \/ NavIntentoAgotado
    \/ CargarPropaga
    \/ CargarSeleccionaUnidad
    \/ CargarUnidadFalla
    \/ TurnosLeer
    \/ TurnosLeerFalla
    \/ TurnosDisponibles
    \/ TurnosTimeout
    \/ TurnosReintenta
    \/ Abortar
    \/ RunPreparar
    \/ EnvioInicio
    \/ EnvioTimeout
    \/ EnvioIntenta
    \/ EnvioDescarga
    \/ EnvioFalla
    \/ EnvioScreenshot
    \/ EnvioReintenta
    \/ EnvioSinTiempo
    \/ EnvioRefill
    \/ Cerrar
    \/ Notificar
    \/ EmailSinCredenciales
    \/ EmailPrepara
    \/ EmailEnvia
    \/ EmailFalla
    \/ EmailFin

Spec == Init /\ [][Next]_vars

\* The date calculator and the target-instant resolver on their own: every
\* weekday, times of day around midnight and noon and 300 s before the
\* default target, and override strings.
HorasEntrada == {0, Seg(1), Seg(2), 12 * HORA - Seg(1), 12 * HORA,
                 DIA - Seg(300), DIA - Seg(299), DIA - Seg(30), DIA - Seg(1)}

Overrides ==
    { Nulo,
      Str(<<>>),
      Str(<<"0", "0", ":", "0", "0", ":", "0", "1">>),
      Str(<<"1", "2", ":", "0", "0">>),
      Str(<<"1", "2", ":", "0", "0", ":", "0", "0">>),
      Str(<<"2", "3", ":", "5", "9", ":", "5", "9">>),
      Str(<<"0", ":", "0", ":", "2", ":", "x">>),
      Str(<<"2", "5", ":", "0", "0">>),
      Str(<<"1", "2", ":", "6", "0">>),
      Str(<<"-", "1", ":", "3", "0">>),
      Str(<<"a", "b", ":", "c", "d">>),
      Str(<<"1", "2", ":", "0", "0", ":", "x">>),
      Str(<<"1", "2">>),
      Str(<<"x">>) }

InitFecha ==
    /\ pc = "run"
    /\ ahora \in {Instante(d, h) : d \in PrimerDia..(PrimerDia + NumDias - 1),
                                   h \in HorasEntrada}
    /\ HORA_OBJETIVO \in Overrides
    /\ MODO_TEST = FALSE
    /\ RESEND_API_KEY = Nulo
    /\ EMAIL_DESTINATARIO = Nulo
    /\ nav = NavVacio
    /\ InitComun

NextFecha == RunInicio \/ EsperarEntrada

SpecFecha == InitFecha /\ [][NextFecha]_vars

\* The page navigator on its own, for every max_reintentos from 1 up.
InitNav ==
    /\ pc = "nav_intento"
    /\ ahora = Instante(16, 0)
    /\ HORA_OBJETIVO = Nulo
    /\ MODO_TEST = FALSE
    /\ RESEND_API_KEY = Nulo
    /\ EMAIL_DESTINATARIO = Nulo
    /\ \E m \in 1..MaxReintentosArg : nav = NavNuevo(m, "")
    /\ InitComun

NextNav == NavIntentoOk \/ NavIntentoFalla \/ NavIntentoAgotado

SpecNav == InitNav /\ [][NextNav]_vars

\* The precision waiter on its own, with no override: entered from 5 ms to
\* 300 s before the default target (00:00:01 of Tuesday 2026-02-17), with
\* exact sleeps (SpecEsperaExacta) and with late ones (SpecEspera).
RestosEntrada ==
    ({Seg(s) + u : s \in {0, 1, 2, 3, 9, 10, 11, 14, 15, 150, 299},
                   u \in 0..MaxDesfase} \cup {Seg(300)}) \ {0}

InitEspera ==
    /\ pc = "esperar_hora"
    /\ ahora \in {Instante(17, Seg(1)) - r : r \in RestosEntrada}
    /\ HORA_OBJETIVO = Nulo
    /\ MODO_TEST = FALSE
    /\ RESEND_API_KEY = Nulo
    /\ EMAIL_DESTINATARIO = Nulo
    /\ nav = NavVacio
    /\ InitComun

NextEsperaExacta == EsperarEntrada \/ EsperaGruesa \/ EsperaFina

SpecEsperaExacta == InitEspera /\ [][NextEsperaExacta]_vars

NextEspera == EsperarEntrada \/ EsperaGruesaTarde \/ EsperaFinaTarde

SpecEspera == InitEspera /\ [][NextEspera]_vars

\* The availability poller on its own, from the state in which run calls
\* it (line 348) in test mode on a Monday, up to its return.
InitTurnos ==
    /\ pc = "lanzar"
    /\ ahora = Instante(16, 12 * HORA)
    /\ HORA_OBJETIVO = Nulo
    /\ MODO_TEST = TRUE
    /\ RESEND_API_KEY = Nulo
    /\ EMAIL_DESTINATARIO = Nulo
    /\ fecha_visita = calcular_proximo_miercoles(ahora)
    /\ objetivo = 0
    /\ espera_llamada = FALSE
    /\ reloj = 0
    /\ nav = NavVacio
    /\ turnos = TurnosVacio
    /\ envio = EnvioVacio
    /\ max_attr = Nulo
    /\ gotoCalls = 0
    /\ pagina = "blank"
    /\ fecha_str = <<>>
    /\ browser = "no"
    /\ emails = 0
    /\ correo = CorreoVacio
    /\ excepcion = "ninguna"

NextTurnos ==
    \/ Lanzar
    \/ TurnosLoop
    \/ NavIntentoOk
    \/ NavIntentoFalla
    \/ NavIntentoAgotado
    \/ CargarPropaga
    \/ CargarSeleccionaUnidad
    \/ CargarUnidadFalla
    \/ TurnosLeer
    \/ TurnosLeerFalla
    \/ TurnosDisponibles
    \/ TurnosTimeout
    \/ TurnosReintenta

SpecTurnos == InitTurnos /\ [][NextTurnos]_vars

\* The submission retrier on its own, from the state in which run calls it
\* (line 359) in test mode on a Monday: one goto made, the form filled.
InitEnvio ==
    /\ pc = "envio_inicio"
    /\ ahora = Instante(16, 12 * HORA)
    /\ HORA_OBJETIVO = Nulo
    /\ MODO_TEST = TRUE
    /\ RESEND_API_KEY = Nulo
    /\ EMAIL_DESTINATARIO = Nulo
    /\ fecha_visita = calcular_proximo_miercoles(ahora)
    /\ objetivo = 0
    /\ espera_llamada = FALSE
    /\ reloj \in {Seg(2), Salto}
    /\ nav = NavVacio
    /\ turnos = TurnosVacio
    /\ envio = EnvioVacio
    /\ max_attr = Nulo
    /\ gotoCalls = 1
    /\ pagina = "llena"
    /\ fecha_str = StrfDMY(fecha_visita)
    /\ browser = "abierto"
    /\ emails = 0
    /\ correo = CorreoVacio
    /\ excepcion = "ninguna"

NextEnvio ==
    \/ EnvioInicio
    \/ EnvioTimeout
    \/ EnvioIntentaSolo
    \/ EnvioDescarga
    \/ EnvioFalla
    \/ EnvioScreenshot
    \/ EnvioReintenta
    \/ EnvioSinTiempo
    \/ NavIntentoOk
    \/ NavIntentoFalla
    \/ NavIntentoAgotado
    \/ CargarPropaga
    \/ CargarSeleccionaUnidad
    \/ CargarUnidadFalla
    \/ EnvioRefill

SpecEnvio == InitEnvio /\ [][NextEnvio]_vars

\* The submission retrier run to its end: every sleep ends and every driver
\* call returns or raises, so a step that can be taken is taken. Each reload
\* succeeds at its first goto; the navigator's own retries are bounded by
\* its for loop (SpecNav).
NextEnvioJusto ==
    \/ EnvioInicio
    \/ EnvioTimeout
    \/ EnvioIntentaJusto
    \/ EnvioDescarga
    \/ EnvioFalla
    \/ EnvioScreenshot
    \/ EnvioReintenta
    \/ EnvioSinTiempo
    \/ NavIntentoOk
    \/ CargarSeleccionaUnidad
    \/ CargarUnidadFalla
    \/ EnvioRefill

SpecEnvioJusto ==
    InitEnvio /\ [][NextEnvioJusto]_vars /\ WF_vars(NextEnvioJusto)

\* enviar_email on its own: with and without credentials, and recipient
\* texts of 1 to MaxDestinatarios names, with blanks and empty names.
Nombres == <<"a", "b", "c", "d", "e", "f", "g", "h">>

RECURSIVE ListaDe(_)
ListaDe(n) ==
    IF n = 1 THEN <<Nombres[1]>>
    ELSE ListaDe(n - 1) \o <<",", " ", Nombres[n]>>

TextosDestinatario ==
    {Nulo, Str(<<>>), Str(<<",">>), Str(<<" ", "a", " ", ",", "b", " ">>)}
      \cup {Str(ListaDe(n)) : n \in 1..MaxDestinatarios}

InitEmail ==
    /\ pc = "email_inicio"
    /\ ahora = Instante(16, 0)
    /\ HORA_OBJETIVO = Nulo
    /\ MODO_TEST = FALSE
    /\ RESEND_API_KEY \in {Nulo, Str(<<>>), Str(<<"k">>)}
    /\ EMAIL_DESTINATARIO \in TextosDestinatario
    /\ nav = NavVacio
    /\ InitComun

NextEmail ==
    \/ EmailSinCredenciales
    \/ EmailPrepara
    \/ EmailEnvia
    \/ EmailFalla
    \/ EmailFin

SpecEmail == InitEmail /\ [][NextEmail]_vars

\* ================================================================= claims

\* C1 (SpecFecha): for every current weekday calcular_proximo_miercoles
\* returns now + d days with d = (2 - weekday) mod 7, or 7 on a Wednesday;
\* the result is a Wednesday, 1 <= d <= 7, and it is never today's date.
C1_ProximoMiercoles ==
    fecha_visita # 0 =>
        LET d == DiaDe(fecha_visita) - DiaDe(ahora)
        IN /\ fecha_visita = ahora + d * DIA
           /\ d = IF Weekday(ahora) = 2 THEN 7 ELSE (2 - Weekday(ahora)) % 7
           /\ d \in 1..7
           /\ Weekday(fecha_visita) = 2
           /\ FechaDeDia(DiaDe(fecha_visita)) # FechaDeDia(DiaDe(ahora))

\* C1 witness: computed on a Wednesday, the result is the Wednesday a week on.
C1_Witness ==
    /\ fecha_visita # 0
    /\ Weekday(ahora) = 2
    /\ DiaDe(fecha_visita) = DiaDe(ahora) + 7

\* C2 (SpecNav): when the navigator returns True after N failed attempts,
\* N < max_reintentos, it has made exactly N + 1 goto calls and slept exactly
\* N times, the k-th sleep lasting min(2^k, 15) seconds.
C2_NavExito ==
    pc = "nav_ok" =>
        /\ nav.resultado = "True"
        /\ nav.fallos < nav.max
        /\ nav.gotos = nav.fallos + 1
        /\ Len(nav.sleeps) = nav.fallos
        /\ \A k \in 1..nav.fallos :
               nav.sleeps[k] = Seg(IF 2 ^ k < 15 THEN 2 ^ k ELSE 15)

\* C2 witness: success on the fifth attempt, after sleeps of 2, 4, 8, 15 s.
C2_Witness ==
    /\ pc = "nav_ok"
    /\ nav.fallos = 4
    /\ nav.sleeps = <<Seg(2), Seg(4), Seg(8), Seg(15)>>

\* C3 (SpecNav): the navigator raises exactly when every one of its
\* max_reintentos attempts has failed; it has then made max_reintentos goto
\* calls and slept max_reintentos - 1 times, and has returned no value.
C3_NavAgotado ==
    /\ nav.fallos <= nav.max
    /\ (nav.fallos = nav.max) <=> (pc = "nav_raise")
    /\ pc = "nav_raise" =>
           /\ nav.resultado = "raise"
           /\ nav.gotos = nav.max
           /\ Len(nav.sleeps) = nav.max - 1

\* C3 witness: five attempts failed and the navigator raised.
C3_Witness ==
    /\ pc = "nav_raise"
    /\ nav.max = 5
    /\ nav.gotos = 5

\* C4 (Spec): preparar_formulario, called by run or by the retrier, leaves
\* the number of goto calls as it was, whether its field operations succeed
\* or raise.
C4_PrepararNoNavega ==
    [][(pc \in {"preparar", "envio_refill"}) => (gotoCalls' = gotoCalls)]_vars

\* C4 witness: the form was filled by run and filled again by the retrier;
\* the only two goto calls are the poller's load and the retrier's reload.
C4_Witness ==
    /\ pc = "envio_loop"
    /\ envio.refills = 1
    /\ pagina = "llena"
    /\ gotoCalls = 2

\* C5 (Spec): when the first read of max is absent, the poller returns True
\* after that one load and read, without any sleep.
C5_MaxAusente ==
    (turnos.lecturas # <<>> /\ ~turnos.lecturas[1].presente) =>
        /\ Len(turnos.lecturas) = 1
        /\ turnos.cargas = 1
        /\ turnos.sleeps = <<>>
        /\ \/ pc = "turnos_decidir" /\ turnos.resultado = ""
           \/ pc = "preparar" /\ turnos.resultado = "True"

\* C5 witness: the poller returned True on an absent max.
C5_Witness ==
    /\ pc = "preparar"
    /\ turnos.resultado = "True"
    /\ turnos.lecturas = <<Nulo>>

\* Whether a value read allows the visit date, by the order of the dates:
\* absent, or the date it names is not before the visit date.
PermiteFecha(v) ==
    \/ ~v.presente
    \/ \E k \in Semanas : k >= 0 /\ v.valor = StrfISO(MasDias(fecha_visita, 7 * k))

\* C6 (Spec): the poller never goes on after a read that allows the date; it
\* returns True at the first such read, the k-th, after exactly k loads and
\* reads and exactly k - 1 sleeps of 5 s.
C6_TurnosKLecturas ==
    LET n == Len(turnos.lecturas)
    IN /\ \A i \in 1..(n - 1) : ~PermiteFecha(turnos.lecturas[i])
       /\ (n >= 1 /\ PermiteFecha(turnos.lecturas[n])) =>
              pc \in {"turnos_decidir", "preparar"}
       /\ turnos.resultado = "True" =>
              /\ n >= 1
              /\ PermiteFecha(turnos.lecturas[n])
              /\ turnos.cargas = n
              /\ Len(turnos.sleeps) = n - 1
              /\ \A i \in 1..(n - 1) : turnos.sleeps[i] = Seg(5)

\* C6 witness: True on the third read, a date string, after two sleeps.
C6_Witness ==
    /\ turnos.resultado = "True"
    /\ Len(turnos.lecturas) = 3
    /\ turnos.lecturas[3].presente
    /\ turnos.sleeps = <<Seg(5), Seg(5)>>

\* What the retrier has done so far stays as it is.
EnvioQuieto ==
    /\ envio'.clicks = envio.clicks
    /\ envio'.sleeps = envio.sleeps
    /\ envio'.recargas = envio.recargas
    /\ envio'.refills = envio.refills
    /\ gotoCalls' = gotoCalls
    /\ reloj' = reloj

\* C7 (Spec): when a time check of the retrier (at the head of the loop or
\* after a failed attempt) finds the elapsed time >= 900 s, the retrier
\* returns None, and from then on no click, sleep, reload or refill happens.
C7_TimeoutDetiene ==
    [][/\ (pc \in {"envio_loop", "envio_check"} /\ reloj >= Seg(900)) =>
              /\ envio'.resultado = "None"
              /\ pc' = "cerrar"
              /\ EnvioQuieto
       /\ envio.resultado = "None" => EnvioQuieto]_vars

\* C7 witness: None after the check that follows the second failed attempt.
C7_Witness ==
    /\ envio.resultado = "None"
    /\ envio.intento = 2
    /\ envio.clicks = 2
    /\ envio.recargas = 1

\* The override strings of Overrides that parse to a time of day, and the
\* absence of an override (unset or empty).
OverridesValidos ==
    { Str(<<"0", "0", ":", "0", "0", ":", "0", "1">>),
      Str(<<"1", "2", ":", "0", "0">>),
      Str(<<"1", "2", ":", "0", "0", ":", "0", "0">>),
      Str(<<"2", "3", ":", "5", "9", ":", "5", "9">>),
      Str(<<"0", ":", "0", ":", "2", ":", "x">>) }
SinOverride == HORA_OBJETIVO \in {Nulo, Str(<<>>)}

\* C8 as stated (SpecFecha): with a valid override or none, the instant
\* returned by obtener_hora_objetivo is not in the past.
C8_NuncaEnElPasado ==
    (objetivo # 0 /\ (SinOverride \/ HORA_OBJETIVO \in OverridesValidos)) =>
        objetivo >= ahora

\* C8 amended (SpecFecha): with a valid override the result is strictly
\* after now; with none it is 00:00:01 of tomorrow when the hour is >= 12,
\* and 00:00:01 of today, never moved forward, when the hour is < 12.
C8_ObjetivoResuelto ==
    objetivo # 0 =>
        /\ HORA_OBJETIVO \in OverridesValidos => objetivo > ahora
        /\ SinOverride =>
               IF Hour(ahora) >= 12
               THEN objetivo = Instante(DiaDe(ahora) + 1, Seg(1)) /\ objetivo > ahora
               ELSE objetivo = Instante(DiaDe(ahora), Seg(1))

\* C8 witness: no override, before noon, and the target returned has passed.
C8_Witness ==
    /\ objetivo # 0
    /\ SinOverride
    /\ Hour(ahora) < 12
    /\ objetivo < ahora

\* C9 as stated (Spec), in its weakest reading: in test mode, before the
\* form is filled, there is no wait for the target instant and the poller's
\* wait loop does not run, that is, no inter-poll sleep and no second read
\* of the constraint (the poller's frame is dropped when the form is filled).
C9_ModoTestSinSondeo ==
    MODO_TEST =>
        /\ ~espera_llamada
        /\ turnos.sleeps = <<>>
        /\ Len(turnos.lecturas) <= 1

\* C10 as stated (Spec): no exception leaves the retrier.
C10_NuncaEscapa == envio.resultado # "raise"

\* C10 amended (Spec): an exception leaves the retrier only from the
\* recovery between attempts (the reload or the refill); a failure of the
\* click, the download wait, save_as or the screenshot never does.
C10_SoloRecuperacionEscapa ==
    /\ envio.resultado \in {"", "pdf", "None", "raise"}
    /\ envio.resultado = "raise" =>
           /\ envio.origen \in {"recarga", "refill"}
           /\ envio.clicks >= 1
           /\ pc = "error"
    /\ excepcion # "intento"

\* C10 witness: the navigator ran out of attempts during the reload after a
\* failed attempt, and its exception left the retrier.
C10_Witness ==
    /\ envio.resultado = "raise"
    /\ envio.origen = "recarga"
    /\ excepcion = "navegar_con_reintentos"
    /\ envio.screenshots = 1

\* The override strings of Overrides that are malformed: a component that is
\* not a number, a component out of range, or no minute component.
OverridesMalformados ==
    { Str(<<"2", "5", ":", "0", "0">>),
      Str(<<"1", "2", ":", "6", "0">>),
      Str(<<"-", "1", ":", "3", "0">>),
      Str(<<"a", "b", ":", "c", "d">>),
      Str(<<"1", "2", ":", "0", "0", ":", "x">>),
      Str(<<"1", "2">>),
      Str(<<"x">>) }

\* C11 as stated (SpecFecha): for every malformed override, once the waiter
\* has called obtener_hora_objetivo no error has been raised by it and the
\* target is the default one: 00:00:01 of tomorrow when the hour is >= 12, of
\* today otherwise.
C11_MalformadoUsaDefault ==
    (espera_llamada /\ HORA_OBJETIVO \in OverridesMalformados) =>
        /\ excepcion # "IndexError"
        /\ objetivo = Instante(DiaDe(ahora) + (IF Hour(ahora) >= 12 THEN 1 ELSE 0),
                               Seg(1))

\* C12 (SpecEmail): with both credentials configured, the sends made so far
\* are one per recipient, in the order of the list, whatever the earlier
\* outcomes; no failure of a send leaves the function; it returns only after
\* a send to every recipient, and returns True exactly when one succeeded.
C12_UnEnvioPorDestinatario ==
    (Configurado(RESEND_API_KEY) /\ Configurado(EMAIL_DESTINATARIO)
       /\ pc # "email_inicio") =>
        LET n == Len(correo.envios)
            algun_exito == \E k \in 1..n : correo.envios[k].ok
        IN /\ pc \in {"email_bucle", "fin"}
           /\ excepcion = "ninguna"
           /\ n <= Len(correo.destinatarios)
           /\ \A k \in 1..n : correo.envios[k].a = correo.destinatarios[k]
           /\ correo.exitos = Cardinality({k \in 1..n : correo.envios[k].ok})
           /\ pc = "email_bucle" => correo.resultado = ""
           /\ pc = "fin" =>
                  /\ n = Len(correo.destinatarios)
                  /\ correo.resultado = IF algun_exito THEN "True" ELSE "False"

\* C12 witness: three recipients; the first and third sends failed, the
\* second succeeded, and the function returned True.
C12_Witness ==
    /\ pc = "fin"
    /\ correo.destinatarios = <<(<<"a">>), (<<"b">>), (<<"c">>)>>
    /\ Len(correo.envios) = 3
    /\ ~correo.envios[1].ok
    /\ correo.envios[2].ok
    /\ ~correo.envios[3].ok
    /\ correo.resultado = "True"

\* C13 (Spec): enviar_email is called at most once, and only when the
\* retrier has returned a path and the browser has been closed; it is not
\* called when the poller returned False nor when the retrier returned None
\* or raised, and nothing of enviar_email runs before that call.
C13_NotificaUnaVez ==
    /\ emails \in {0, 1}
    /\ emails = 1 => (envio.resultado = "pdf" /\ browser = "cerrado")
    /\ turnos.resultado = "False" => emails = 0
    /\ envio.resultado \in {"None", "raise"} => emails = 0
    /\ (pc \in {"email_inicio", "email_bucle"} \/ correo # CorreoVacio) =>
           emails = 1

\* C13 witness: run has ended after the one call of enviar_email, which sent
\* to both recipients.
C13_Witness ==
    /\ pc = "fin"
    /\ emails = 1
    /\ envio.resultado = "pdf"
    /\ browser = "cerrado"
    /\ Len(correo.envios) = 2
    /\ correo.resultado = "True"

\* What the poller has done so far stays as it is.
TurnosQuieto ==
    /\ turnos'.cargas = turnos.cargas
    /\ turnos'.lecturas = turnos.lecturas
    /\ turnos'.sleeps = turnos.sleeps
    /\ gotoCalls' = gotoCalls
    /\ reloj' = reloj

\* C14 (Spec): after a read that does not allow the visit date, if the time
\* elapsed since the poller started is >= 300 s the poller returns False,
\* raising nothing, and from then on it makes no sleep, load or read; if it
\* is < 300 s the poller sleeps 5 s and goes back to the head of its loop,
\* whose next step is a load of the page.
C14_PresupuestoSondeo ==
    [][/\ (pc = "turnos_decidir" /\ ~PermiteFecha(max_attr)) =>
              IF reloj >= Seg(300)
              THEN /\ turnos'.resultado = "False"
                   /\ pc' = "abortar"
                   /\ excepcion' = "ninguna"
                   /\ TurnosQuieto
              ELSE /\ turnos'.resultado = ""
                   /\ turnos'.sleeps = Append(turnos.sleeps, Seg(5))
                   /\ reloj' = reloj + Seg(5)
                   /\ turnos'.cargas = turnos.cargas
                   /\ turnos'.lecturas = turnos.lecturas
                   /\ pc' = "turnos_loop"
       /\ pc = "turnos_loop" =>
              (turnos'.cargas = turnos.cargas + 1 /\ pc' = "nav_intento")
       /\ turnos.resultado = "False" => TurnosQuieto]_vars

\* C14 witness: the first read, within the budget, was followed by a sleep
\* and a second load; the second read came after the budget was spent and
\* the poller returned False.
C14_Witness ==
    /\ pc = "abortar"
    /\ turnos.resultado = "False"
    /\ Len(turnos.lecturas) = 2
    /\ turnos.sleeps = <<Seg(5)>>
    /\ turnos.cargas = 2
    /\ reloj >= Seg(300)

\* C15 (SpecFecha): the call of esperar_hasta_hora_objetivo, with r the
\* target minus the instant at entry, sleeps nothing and has one of three
\* outcomes: r <= 0, it returns at once; r > 300 s, it raises; 0 < r <= 300 s,
\* it enters the wait loops.
C15_TresSalidas ==
    [][(pc = "esperar_hora" /\ objetivo' # 0) =>
           LET r == objetivo' - ahora
           IN /\ ahora' = ahora
              /\ r <= 0 => (pc' = "lanzar" /\ excepcion' = "ninguna")
              /\ r > Seg(300) => (pc' = "error" /\ excepcion' = "Exception")
              /\ (0 < r /\ r <= Seg(300)) =>
                     (pc' = "espera_gruesa" /\ excepcion' = "ninguna")]_vars

\* C15 witness: entered exactly 300 s before the target, the waiter is in
\* its wait loops.
C15_Witness ==
    /\ espera_llamada
    /\ objetivo - ahora = Seg(300)
    /\ pc = "espera_gruesa"

\* C15: the other two outcomes are reached too: entered exactly at the
\* target the waiter has returned, and entered 301 s before it has raised.
C15_WitnessInmediato ==
    /\ espera_llamada
    /\ objetivo = ahora
    /\ pc = "lanzar"

C15_WitnessError ==
    /\ espera_llamada
    /\ objetivo - ahora = Seg(301)
    /\ pc = "error"
    /\ excepcion = "Exception"

\* From the end of the poller's last load to the first click: the read, the
\* decision on a value that allows the date, the filling of the form and the
\* retrier up to its first click.
HastaPrimerClick ==
    \/ pc = "turnos_leer"
    \/ pc = "turnos_decidir" /\ PermiteFecha(max_attr)
    \/ pc \in {"preparar", "envio_inicio"}
    \/ pc \in {"envio_loop", "envio_click"} /\ envio.clicks = 0

\* C16 (Spec): from the end of the poller's last load to the first click no
\* goto is made; the form is filled on the page the poller left with the
\* unit selected, and the first click is made on that page, filled; the
\* poller's first load, when its first goto succeeds, ends with exactly one
\* goto made, so that one goto has been made when the form is filled.
C16_SinDobleNavegacion ==
    [][/\ HastaPrimerClick => (gotoCalls' = gotoCalls /\ pc' # "nav_intento")
       /\ pc = "preparar" =>
              (pagina = "unidad" /\ turnos.cargas = Len(turnos.lecturas))
       /\ (pc = "envio_click" /\ envio.clicks = 0) => pagina = "llena"
       /\ (pc = "nav_ok" /\ nav.ret = "turnos" /\ nav.fallos = 0
             /\ turnos.cargas = 1) =>
              (gotoCalls = 1 /\ gotoCalls' = 1)]_vars

\* C16 witness: the first click is about to be made on the filled form, and
\* the only goto so far is the poller's.
C16_Witness ==
    /\ pc = "envio_click"
    /\ envio.clicks = 0
    /\ pagina = "llena"
    /\ gotoCalls = 1
    /\ fecha_str = StrfDMY(fecha_visita)

\* What the retrier has done so far: screenshot attempts, backoff sleeps,
\* reloads started and refills completed.
EnvioHechos(s, sl, r, f) ==
    /\ envio.screenshots = s
    /\ Len(envio.sleeps) = sl
    /\ envio.recargas = r
    /\ envio.refills = f

\* C17 (Spec): with k the clicks made so far, the retrier is about to click
\* only when k screenshot attempts, k sleeps, k reloads and k refills have
\* been made, on a page loaded and filled since the last click; after the
\* k-th click fails these happen one at a time and in this order: the
\* screenshot attempt, the sleep, the reload with the unit selected, the
\* refill.
C17_OrdenRecuperacion ==
    LET k == envio.clicks
    IN /\ pc \in {"envio_loop", "envio_click"} =>
              (EnvioHechos(k, k, k, k) /\ pagina = "llena")
       /\ pc = "envio_screenshot" =>
              (k >= 1 /\ EnvioHechos(k - 1, k - 1, k - 1, k - 1))
       /\ pc = "envio_check" => EnvioHechos(k, k - 1, k - 1, k - 1)
       /\ (pc \in {"nav_intento", "nav_ok", "nav_raise"} /\ nav.ret = "envio") =>
              EnvioHechos(k, k, k, k - 1)
       /\ pc = "envio_refill" =>
              (EnvioHechos(k, k, k, k - 1) /\ pagina = "unidad")

\* C17 witness: the third click is about to be made, after two failed
\* attempts each followed by a screenshot attempt, a sleep, a reload and a
\* refill.
C17_Witness ==
    /\ pc = "envio_click"
    /\ envio.clicks = 2
    /\ EnvioHechos(2, 2, 2, 2)
    /\ pagina = "llena"

\* C18 (SpecEnvio): the retrier has returned None only with the time
\* elapsed since its own start >= 900 s; while that time is < 900 s a failed
\* attempt, whatever its number, is followed by the backoff and the reload,
\* and the head of the loop by the next click (for the attempts the model
\* explores).
C18_LimitadoPorTiempo ==
    [][/\ envio.resultado = "None" => reloj >= Seg(900)
       /\ envio'.resultado = "None" => reloj' >= Seg(900)
       /\ (pc = "envio_check" /\ reloj < Seg(900)) =>
              /\ pc' = "nav_intento"
              /\ envio'.resultado = ""
              /\ envio'.recargas = envio.recargas + 1
       /\ (pc = "envio_loop" /\ reloj < Seg(900)) =>
              (pc' = "envio_click" /\ envio'.resultado = "")]_vars

\* C18 witness: None at the head of the loop, after two failed attempts and
\* two reloads and refills, with 900 s or more elapsed.
C18_Witness ==
    /\ envio.resultado = "None"
    /\ envio.clicks = 2
    /\ envio.refills = 2
    /\ reloj >= Seg(900)

\* C18: with less than 900 s elapsed, the retrier goes on to its sixth
\* click after five failed attempts.
C18_WitnessSigue ==
    /\ pc = "envio_click"
    /\ envio.intento = 6
    /\ envio.clicks = 5
    /\ reloj < Seg(900)

\* The backoff sequence of the retrier, in seconds: 2, 4, 8, 15, 15, ...
EsperaEsperada(n) ==
    CASE n = 1 -> 2
      [] n = 2 -> 4
      [] n = 3 -> 8
      [] OTHER -> 15

\* C19 (SpecEnvio): the n-th backoff sleep of the retrier, made after its
\* n-th failed attempt, lasts 2, 4, 8, 15, 15, ... seconds; the sleeps never
\* decrease and none exceeds 15 s; a sleep is made only after a failed
\* attempt that left time.
C19_SecuenciaBackoff ==
    /\ \A n \in 1..Len(envio.sleeps) :
           /\ envio.sleeps[n] = Seg(EsperaEsperada(n))
           /\ envio.sleeps[n] <= Seg(15)
           /\ n > 1 => envio.sleeps[n - 1] <= envio.sleeps[n]
    /\ Len(envio.sleeps) <= envio.clicks
    /\ envio.resultado # "pdf" => Len(envio.sleeps) >= envio.clicks - 1

\* C19 witness: five failed attempts, followed by sleeps of 2, 4, 8, 15 and
\* 15 s.
C19_Witness ==
    /\ envio.clicks = 5
    /\ envio.sleeps = <<Seg(2), Seg(4), Seg(8), Seg(15), Seg(15)>>

\* C20 (SpecEnvio): the screenshot attempt, whether it succeeds or raises,
\* leaves the retrier at the time check with nothing raised and nothing else
\* changed; what follows is the same in both cases, a function of the state
\* without the outcome: with less than 900 s elapsed the backoff sleep and the
\* reload, otherwise the return of None.
C20_CapturaTragada ==
    [][/\ pc = "envio_screenshot" =>
              /\ pc' = "envio_check"
              /\ excepcion' = "ninguna"
              /\ envio'.captura \in {"ok", "falla"}
              /\ envio' = [envio EXCEPT !.screenshots = @ + 1,
                                        !.captura = envio'.captura]
              /\ UNCHANGED <<reloj, pagina, gotoCalls, nav>>
       /\ pc = "envio_check" =>
              /\ envio.captura \in {"ok", "falla"}
              /\ excepcion' = "ninguna"
              /\ UNCHANGED <<pagina, gotoCalls>>
              /\ IF reloj < Seg(900)
                 THEN /\ pc' = "nav_intento"
                      /\ reloj' = reloj + Seg(EsperaEsperada(envio.clicks))
                      /\ nav' = NavNuevo(5, "envio")
                      /\ envio' = [envio EXCEPT
                             !.captura = "",
                             !.sleeps = Append(@, Seg(EsperaEsperada(envio.clicks))),
                             !.recargas = @ + 1]
                 ELSE /\ pc' = "cerrar"
                      /\ reloj' = reloj
                      /\ nav' = nav
                      /\ envio' = [envio EXCEPT !.captura = "",
                                                !.resultado = "None"]]_vars

\* C20 witness: the screenshot of the second failed attempt raised, and the
\* retrier is at its time check with nothing raised.
C20_Witness ==
    /\ pc = "envio_check"
    /\ envio.captura = "falla"
    /\ envio.clicks = 2
    /\ envio.screenshots = 2
    /\ excepcion = "ninguna"

\* C20: the same state is reached with a screenshot that succeeded.
C20_WitnessOk ==
    /\ pc = "envio_check"
    /\ envio.captura = "ok"
    /\ envio.clicks = 2
    /\ envio.screenshots = 2

\* The time of day each valid override string names (seconds are 0 when
\* omitted).
HoraNombrada(texto) ==
    CASE texto = Str(<<"0", "0", ":", "0", "0", ":", "0", "1">>) -> Seg(1)
      [] texto = Str(<<"1", "2", ":", "0", "0">>) -> 12 * HORA
      [] texto = Str(<<"1", "2", ":", "0", "0", ":", "0", "0">>) -> 12 * HORA
      [] texto = Str(<<"2", "3", ":", "5", "9", ":", "5", "9">>) -> DIA - Seg(1)
      [] texto = Str(<<"0", ":", "0", ":", "2", ":", "x">>) -> Seg(2)

\* C21 (SpecFecha): with a valid override the target is the time of day it
\* names, today when that is strictly later than now and tomorrow otherwise;
\* so it is strictly after now and at most 24 hours after now.
C21_OverrideValido ==
    (objetivo # 0 /\ HORA_OBJETIVO \in OverridesValidos) =>
        LET hoy == Instante(DiaDe(ahora), HoraNombrada(HORA_OBJETIVO))
        IN /\ objetivo = IF hoy > ahora THEN hoy ELSE hoy + DIA
           /\ objetivo > ahora
           /\ objetivo - ahora <= DIA

\* C21 witness: the override "12:00" read at 12:00:00 exactly gives 12:00:00
\* of tomorrow, 24 hours after now.
C21_Witness ==
    /\ objetivo # 0
    /\ HORA_OBJETIVO = Str(<<"1", "2", ":", "0", "0">>)
    /\ HoraDelDia(ahora) = 12 * HORA
    /\ objetivo = ahora + DIA

\* C21: the same override read one second earlier gives 12:00:00 of today.
C21_WitnessHoy ==
    /\ objetivo # 0
    /\ HORA_OBJETIVO = Str(<<"1", "2", ":", "0", "0">>)
    /\ objetivo = ahora + Seg(1)

\* C22 (SpecEspera): entered from 0 to 300 s before the target, and with
\* sleeps and clock reads late by any of the amounts explored, the waiter
\* returns only from its fine loop and only on a clock read of an instant >=
\* the target; it never returns with the clock before the target.
C22_NuncaAntes ==
    [][/\ pc = "espera_gruesa" => pc' \in {"espera_gruesa", "espera_fina"}
       /\ pc = "espera_fina" => pc' \in {"espera_fina", "lanzar"}
       /\ (pc \in {"espera_gruesa", "espera_fina"} /\ pc' = "lanzar") =>
              (ahora' >= objetivo /\ objetivo' = objetivo)
       /\ ahora' >= ahora]_vars

\* C22 witness: with late sleeps the waiter has returned more than a second
\* after the target.
C22_Witness ==
    /\ pc = "lanzar"
    /\ espera_llamada
    /\ ahora > objetivo + Seg(1)

\* C22: it has also returned exactly at the target.
C22_WitnessJusto ==
    /\ pc = "lanzar"
    /\ espera_llamada
    /\ ahora = objetivo

\* C23 (SpecEsperaExacta): with sleeps that last exactly what they are asked
\* and clock reads that take no time, entered from 0 to 300 s before the
\* target, the coarse loop is never past the target (no 5 s or 0.5 s sleep
\* ends after it), the fine loop is never 10 ms or more past it, and the
\* waiter returns at an instant t with target <= t < target + 100 ms.
C23_PrecisionExacta ==
    /\ pc = "espera_gruesa" => ahora < objetivo
    /\ pc = "espera_fina" => ahora < objetivo + Seg(1) \div 100
    /\ pc = "lanzar" =>
           (objetivo <= ahora /\ ahora < objetivo + Seg(1) \div 10)

\* C23 witness: the waiter has returned 5 ms after the target.
C23_Witness ==
    /\ pc = "lanzar"
    /\ espera_llamada
    /\ ahora = objetivo + Seg(1) \div 200

\* C24 (Spec): once the poller has returned False, run only closes the
\* browser and returns: it raises nothing, the form is never filled, the
\* retrier is never entered (no click, no PDF), and enviar_email is never
\* called; when run has returned the browser is closed.
C24_AbortaSinTurnos ==
    turnos.resultado = "False" =>
        /\ pc \in {"abortar", "fin"}
        /\ pc = "abortar" => browser = "abierto"
        /\ pc = "fin" => browser = "cerrado"
        /\ excepcion = "ninguna"
        /\ pagina = "unidad"
        /\ fecha_str = <<>>
        /\ envio = EnvioVacio
        /\ emails = 0
        /\ correo = CorreoVacio

\* C24 witness: run has returned after the poller's False, with the browser
\* closed.
C24_Witness ==
    /\ pc = "fin"
    /\ turnos.resultado = "False"
    /\ browser = "cerrado"
    /\ envio.clicks = 0
    /\ emails = 0

\* C25 (SpecTurnos): the poller's first step is a load, whatever the clock;
\* it returns a value only after at least one load and read; a read that
\* allows the visit date makes it return True at once, without a look at the
\* time elapsed, even when that is >= 300 s; it returns False only on a read
\* that does not allow the date, with 300 s or more elapsed.
C25_PresupuestoTrasLectura ==
    [][/\ (pc = "turnos_loop" /\ turnos.intento = 0) =>
              (pc' = "nav_intento" /\ turnos'.cargas = 1)
       /\ (pc = "turnos_decidir" /\ PermiteFecha(max_attr)) =>
              /\ pc' = "preparar"
              /\ turnos'.resultado = "True"
              /\ reloj' = reloj
       /\ turnos'.resultado \in {"True", "False"} =>
              /\ Len(turnos'.lecturas) >= 1
              /\ turnos'.cargas = Len(turnos'.lecturas)
              /\ max_attr' = turnos'.lecturas[Len(turnos'.lecturas)]
       /\ turnos'.resultado = "False" =>
              (~PermiteFecha(max_attr') /\ reloj' >= Seg(300))]_vars

\* C25 witness: the first load took 300 s or more, its read allowed the
\* date, and the poller returned True.
C25_Witness ==
    /\ pc = "preparar"
    /\ turnos.resultado = "True"
    /\ Len(turnos.lecturas) = 1
    /\ reloj >= Seg(300)

\* ---------------------------------------------------------------- C26
RECURSIVE SumaSeq(_)
SumaSeq(s) == IF s = <<>> THEN 0 ELSE Head(s) + SumaSeq(Tail(s))

====
